---- MODULE Spec2Model ----
(***************************************************************************)
(* Verification model of the sparse-matrix tutorial notebooks:             *)
(*   - hypergraph neural network (HGNN):   D_v^-1/2 H B D_e^-1 H^T D_v^-1/2 *)
(*   - graph convolutional network (GCN):  D^-1/2 (A+I) D^-1/2              *)
(*   - graph transformer (SparseMHA):      softmax((Q K^T) o A) V           *)
(*                                                                         *)
(* Tensor entries are exact numbers  n / (d * sqrt(r))  kept in normal     *)
(* form, so that equality of two entries is equality of records.  Sparse   *)
(* matrices keep their set of stored positions.  Indices are 0-based as in *)
(* the notebooks.                                                          *)
(***************************************************************************)
EXTENDS Integers, Sequences, FiniteSets, TLC

(***************************************************************************)
(* Bounds of the explored inputs.                                          *)
(***************************************************************************)
\* incidence relations are drawn over MaxNodes x MaxHyperedges
MaxNodes == 3
MaxHyperedges == 3
\* at most MaxPairs (row, col) pairs in a drawn relation
MaxPairs == 6
\* graphs have at most MaxGraphNodes nodes and MaxEdges directed edges
MaxGraphNodes == 3
MaxEdges == 3
\* attention heads, width of one head, and drawn parameter/feature settings
NumHeads == 2
HeadWidth == 2
NumSeeds == 2
TrainSample == 3
EvalSample == 1
BatchSize == 2

VARIABLES
    notebook,           \* which notebook the run executes
    pc,                 \* position in the notebook
    nodes,              \* COO row indices handed to from_coo
    hyperedges,         \* COO column indices handed to from_coo
    H,                  \* incidence matrix
    node_degrees,       \* H.sum(1)
    hyperedge_degrees,  \* H.sum(0)
    model,              \* what HGNN.__init__ computed; model.L is self.L
    src,                \* g.edges()[0]
    dst,                \* g.edges()[1]
    num_nodes,          \* g.num_nodes()
    A,                  \* adjacency matrix from_coo(dst, src, shape=(N, N))
    conv,               \* what the last GCNLayer.forward computed
    seed,               \* selects the layer parameters and the features
    h,                  \* node features entering the attention layer
    mha,                \* what the last SparseMHA.forward computed
    epoch,              \* loop variable of the training loop
    mode,               \* "train" after model.train(), "eval" after model.eval()
    grad,               \* state of the parameters' gradients
    X,                  \* operations applied to the features in this forward pass
    stdout,             \* the reports printed so far
    postfix,            \* what the progress bar shows after set_postfix
    steps,              \* number of optimizer.step() calls made
    passes,             \* number of forward passes started
    builds,             \* number of propagation operators computed
    coo,                \* number of matrices built by from_coo
    train_idx,          \* dataset.train_idx
    val_idx,            \* dataset.val_idx
    test_idx,           \* dataset.test_idx
    PE,                 \* width of g.ndata["PE"] per graph, 0 when absent
    pos_linear,         \* input width of GTModel.pos_linear, 0 before creation
    loader,             \* the dataloader being iterated
    queue,              \* graphs the dataloader has not served yet
    batched_g,          \* the graphs of the current mini-batch
    lr,                 \* learning rate of the optimizer's parameter group
    last_epoch,         \* the scheduler's count of scheduler.step() calls
    step_lrs,           \* learning rates the optimizer.step() calls ran with
    logits,             \* number of updates behind the parameters that made the logits
    val_acc,            \* number of updates behind the last accuracies computed
    caller              \* the function the current forward pass was called from

hgnnVars == <<nodes, hyperedges, H, node_degrees, hyperedge_degrees, model>>
graphVars == <<src, dst, num_nodes>>
gcnVars == <<A, conv>>
gtVars == <<seed, h, mha>>

loopVars == <<epoch, mode, grad, X, stdout, postfix>>
countVars == <<steps, passes, builds, coo>>
dataVars == <<train_idx, val_idx, test_idx, PE, pos_linear, loader, queue,
              batched_g>>

runVars == <<lr, last_epoch, step_lrs, logits, val_acc, caller>>

vars == <<notebook, pc, hgnnVars, graphVars, gcnVars, gtVars, loopVars,
          countVars, dataVars, runVars>>

\* value of a variable the run has not assigned yet
None == "None"

(***************************************************************************)
(* Exact scalars.  [n, d, r] stands for n / (d * sqrt(r)) with d >= 1,     *)
(* gcd(n, d) = 1 and r square-free.  Inf and NaN are the IEEE results of   *)
(* 0 ** -0.5, 0 ** -1 and inf * 0.  All finite scalars of the operator     *)
(* builders are non-negative.                                              *)
(***************************************************************************)
Inf == [n |-> 1, d |-> 0, r |-> 1]
NaN == [n |-> 0, d |-> 0, r |-> 1]
Zero == [n |-> 0, d |-> 1, r |-> 1]
One == [n |-> 1, d |-> 1, r |-> 1]

IsFinite(x) == x.d # 0

Abs(i) == IF i < 0 THEN -i ELSE i

RECURSIVE GCD(_, _)
GCD(a, b) == IF b = 0 THEN a ELSE GCD(b, a % b)

\* the largest s with s*s dividing r
SquarePart(r) == CHOOSE s \in 1..r :
    /\ r % (s * s) = 0
    /\ \A t \in (s + 1)..r : r % (t * t) # 0

\* normal form of n / (d * sqrt(r)), d >= 1, r >= 1
Norm(n, d, r) ==
    IF n = 0 THEN Zero
    ELSE LET s == SquarePart(r)
             dd == d * s
             g == GCD(Abs(n), dd)
         IN [n |-> n \div g, d |-> dd \div g, r |-> r \div (s * s)]

FromInt(i) == Norm(i, 1, 1)

Mul(x, y) ==
    IF x = NaN \/ y = NaN THEN NaN
    ELSE IF x = Inf \/ y = Inf
         THEN (IF x = Zero \/ y = Zero THEN NaN ELSE Inf)
         ELSE Norm(x.n * y.n, x.d * y.d, x.r * y.r)

\* sum of two scalars; finite summands of one matrix entry share their
\* radicand (they carry the same row scaling)
Add(x, y) ==
    IF x = NaN \/ y = NaN THEN NaN
    ELSE IF x = Inf \/ y = Inf THEN Inf
    ELSE IF x = Zero THEN y
    ELSE IF y = Zero THEN x
    ELSE IF x.r = y.r THEN Norm(x.n * y.d + y.n * x.d, x.d * y.d, x.r)
    ELSE NaN

\* x ** -0.5 of a rational x >= 0
PowInvSqrt(x) ==
    IF ~IsFinite(x) THEN (IF x = Inf THEN Zero ELSE NaN)
    ELSE IF x = Zero THEN Inf
    ELSE Norm(x.d, 1, x.d * x.n)

\* x ** -1 of a scalar x >= 0
PowInv(x) ==
    IF ~IsFinite(x) THEN (IF x = Inf THEN Zero ELSE NaN)
    ELSE IF x = Zero THEN Inf
    ELSE Norm(x.d * x.r, x.n, x.r)

RECURSIVE SumOver(_, _)
\* sum of f[e] over the finite set S
SumOver(S, f) ==
    IF S = {} THEN Zero
    ELSE LET e == CHOOSE e \in S : TRUE
         IN Add(f[e], SumOver(S \ {e}, f))

(***************************************************************************)
(* dgl.sparse.  A sparse matrix is [shape |-> <<rows, cols>>, val |-> f]   *)
(* where DOMAIN f is the set of stored positions <<i, j>>.                 *)
(***************************************************************************)
Max(S) == CHOOSE m \in S : \A e \in S : e <= m

Range(s) == {s[t] : t \in DOMAIN s}

Pos(M) == DOMAIN M.val

\* entry of the dense form of M
At(M, i, j) == IF <<i, j>> \in Pos(M) THEN M.val[<<i, j>>] ELSE Zero

\* dglsp.from_coo(row, col, shape=shape): value 1 at every listed pair
from_coo_shape(row, col, shape) ==
    [shape |-> shape,
     val |-> [p \in {<<row[t], col[t]>> : t \in DOMAIN row} |-> One]]

\* dglsp.from_coo(row, col): the shape is inferred from the largest indices
from_coo(row, col) ==
    from_coo_shape(row, col, <<Max(Range(row)) + 1, Max(Range(col)) + 1>>)

Min2(a, b) == IF a < b THEN a ELSE b

\* dglsp.identity(shape)
identity(shape) ==
    [shape |-> shape,
     val |-> [p \in {<<i, i>> : i \in 0..(Min2(shape[1], shape[2]) - 1)} |-> One]]

\* dglsp.diag(v): every diagonal entry is stored, whatever its value
diag(v) ==
    [shape |-> <<Cardinality(DOMAIN v), Cardinality(DOMAIN v)>>,
     val |-> [p \in {<<i, i>> : i \in DOMAIN v} |-> v[p[1]]]]

\* M.sum(dim): a dense vector; dim = 1 sums each row, dim = 0 each column
sum(M, dim) ==
    IF dim = 1
    THEN [i \in 0..(M.shape[1] - 1) |->
            SumOver({p \in Pos(M) : p[1] = i}, M.val)]
    ELSE [j \in 0..(M.shape[2] - 1) |->
            SumOver({p \in Pos(M) : p[2] = j}, M.val)]

\* M.T
T(M) ==
    [shape |-> <<M.shape[2], M.shape[1]>>,
     val |-> [p \in {<<q[2], q[1]>> : q \in Pos(M)} |-> M.val[<<p[2], p[1]>>]]]

\* M1 + M2 of two sparse matrices of one shape
SpAdd(M1, M2) ==
    [shape |-> M1.shape,
     val |-> [p \in Pos(M1) \cup Pos(M2) |->
                Add(At(M1, p[1], p[2]), At(M2, p[1], p[2]))]]

\* M1 @ M2 of two sparse matrices: only stored entries are multiplied
MatMul(M1, M2) ==
    LET P == UNION {{<<p[1], q[2]>> : q \in {q \in Pos(M2) : q[1] = p[2]}} :
                    p \in Pos(M1)}
        Mid(i, k) == {j \in {p[2] : p \in {q \in Pos(M1) : q[1] = i}} :
                        <<j, k>> \in Pos(M2)}
    IN [shape |-> <<M1.shape[1], M2.shape[2]>>,
        val |-> [p \in P |->
                   LET mid == Mid(p[1], p[2])
                   IN SumOver(mid, [j \in mid |->
                        Mul(M1.val[<<p[1], j>>], M2.val[<<j, p[2]>>])])]]

\* elementwise power of a vector / of the stored values of a matrix
VecInvSqrt(v) == [i \in DOMAIN v |-> PowInvSqrt(v[i])]
VecInv(v) == [i \in DOMAIN v |-> PowInv(v[i])]
SpInvSqrt(M) == [shape |-> M.shape, val |-> [p \in Pos(M) |-> PowInvSqrt(M.val[p])]]

(***************************************************************************)
(* Hypergraph notebook.                                                    *)
(***************************************************************************)
\* the literal index lists of the tutorial hypergraph
TutorialNodes ==
    <<0, 1, 2, 2, 2, 2, 3, 4, 5, 5, 5, 5, 6, 7, 7, 8, 8, 9, 9, 10>>
TutorialHyperedges ==
    <<0, 0, 0, 1, 3, 4, 2, 1, 0, 2, 3, 4, 2, 1, 3, 1, 3, 2, 4, 4>>

\* HGNN.__init__ without the trailing D_v_invsqrt factor
HGNN_init_no_post(Hm) ==
    LET d_V == sum(Hm, 1)
        d_E == sum(Hm, 0)
        D_v_invsqrt == diag(VecInvSqrt(d_V))
        D_e_inv == diag(VecInv(d_E))
        n_edges == Cardinality(DOMAIN d_E)
        B == identity(<<n_edges, n_edges>>)
    IN [d_V |-> d_V, d_E |-> d_E,
        D_v_invsqrt |-> D_v_invsqrt, D_e_inv |-> D_e_inv,
        L |-> MatMul(MatMul(MatMul(MatMul(D_v_invsqrt, Hm), B),
                            D_e_inv), T(Hm))]

\* HGNN.__init__ scaling the hyperedges by d_E ** -0.5 instead of d_E ** -1
HGNN_init_sqrt_De(Hm) ==
    LET d_V == sum(Hm, 1)
        d_E == sum(Hm, 0)
        D_v_invsqrt == diag(VecInvSqrt(d_V))
        D_e_inv == diag(VecInvSqrt(d_E))
        n_edges == Cardinality(DOMAIN d_E)
        B == identity(<<n_edges, n_edges>>)
    IN [d_V |-> d_V, d_E |-> d_E,
        D_v_invsqrt |-> D_v_invsqrt, D_e_inv |-> D_e_inv,
        L |-> MatMul(MatMul(MatMul(MatMul(MatMul(D_v_invsqrt, Hm), B),
                                   D_e_inv), T(Hm)), D_v_invsqrt)]

\* HGNN.__init__ with every degree raised to at least 1 before the powers
HGNN_init_clamped(Hm) ==
    LET d_V == [i \in DOMAIN sum(Hm, 1) |->
                   IF sum(Hm, 1)[i] = Zero THEN One ELSE sum(Hm, 1)[i]]
        d_E == [j \in DOMAIN sum(Hm, 0) |->
                   IF sum(Hm, 0)[j] = Zero THEN One ELSE sum(Hm, 0)[j]]
        D_v_invsqrt == diag(VecInvSqrt(d_V))
        D_e_inv == diag(VecInv(d_E))
        n_edges == Cardinality(DOMAIN d_E)
        B == identity(<<n_edges, n_edges>>)
    IN [d_V |-> d_V, d_E |-> d_E,
        D_v_invsqrt |-> D_v_invsqrt, D_e_inv |-> D_e_inv,
        L |-> MatMul(MatMul(MatMul(MatMul(MatMul(D_v_invsqrt, Hm), B),
                                   D_e_inv), T(Hm)), D_v_invsqrt)]

\* HGNN.__init__ stopping at D_v_invsqrt @ H @ B @ D_e_inv
HGNN_init_incidence(Hm) ==
    LET d_V == sum(Hm, 1)
        d_E == sum(Hm, 0)
        D_v_invsqrt == diag(VecInvSqrt(d_V))
        D_e_inv == diag(VecInv(d_E))
        n_edges == Cardinality(DOMAIN d_E)
        B == identity(<<n_edges, n_edges>>)
    IN [d_V |-> d_V, d_E |-> d_E,
        D_v_invsqrt |-> D_v_invsqrt, D_e_inv |-> D_e_inv,
        L |-> MatMul(MatMul(MatMul(D_v_invsqrt, Hm), B), D_e_inv)]

\* HGNN.__init__: the Laplacian and the quantities it is computed from
HGNN_init(Hm) ==
    LET d_V == sum(Hm, 1)
        d_E == sum(Hm, 0)
        D_v_invsqrt == diag(VecInvSqrt(d_V))
        D_e_inv == diag(VecInv(d_E))
        n_edges == Cardinality(DOMAIN d_E)
        B == identity(<<n_edges, n_edges>>)
    IN [d_V |-> d_V, d_E |-> d_E,
        D_v_invsqrt |-> D_v_invsqrt, D_e_inv |-> D_e_inv,
        L |-> MatMul(MatMul(MatMul(MatMul(MatMul(D_v_invsqrt, Hm), B),
                                   D_e_inv), T(Hm)), D_v_invsqrt)]

RECURSIVE Listed(_)
\* the pairs of a relation listed in lexicographic order, no pair twice
Listed(S) ==
    IF S = {} THEN <<>>
    ELSE LET p == CHOOSE p \in S : \A q \in S :
                      p[1] < q[1] \/ (p[1] = q[1] /\ p[2] <= q[2])
         IN <<p>> \o Listed(S \ {p})

\* the relations with at most k pairs over rows 0..n-1 and columns 0..m-1
Relations(n, m, k) ==
    {S \in SUBSET ((0..(n - 1)) \X (0..(m - 1))) : Cardinality(S) <= k}

\* before any training: a module starts in training mode, nothing is printed
InitLoop ==
    /\ epoch = 0 /\ mode = "train" /\ grad = "none"
    /\ X = <<>> /\ stdout = <<>> /\ postfix = <<>>
    /\ steps = 0 /\ passes = 0 /\ builds = 0 /\ coo = 0
    /\ lr = None /\ last_epoch = 0 /\ step_lrs = {}
    /\ logits = None /\ val_acc = None /\ caller = None

\* no dataset of graphs is loaded
InitData ==
    /\ train_idx = {} /\ val_idx = {} /\ test_idx = {}
    /\ PE = <<>> /\ pos_linear = 0
    /\ loader = None /\ queue = {} /\ batched_g = {}

InitHGNN ==
    /\ notebook = "hgnn"
    /\ pc = "from_coo"
    /\ \/ /\ nodes = TutorialNodes
          /\ hyperedges = TutorialHyperedges
       \/ \E S \in Relations(MaxNodes, MaxHyperedges, MaxPairs) \ {{}} :
            /\ nodes = [t \in 1..Cardinality(S) |-> Listed(S)[t][1]]
            /\ hyperedges = [t \in 1..Cardinality(S) |-> Listed(S)[t][2]]
    /\ H = None
    /\ node_degrees = None
    /\ hyperedge_degrees = None
    /\ model = None
    /\ src = <<>> /\ dst = <<>> /\ num_nodes = 0
    /\ A = None /\ conv = None
    /\ seed = 0 /\ h = None /\ mha = None
    /\ InitLoop /\ InitData

\* from_coo called with the two index lists exchanged
BuildIncidence_swapped ==
    /\ notebook = "hgnn"
    /\ pc = "from_coo"
    /\ H' = from_coo(hyperedges, nodes)
    /\ pc' = "degrees"
    /\ UNCHANGED <<notebook, nodes, hyperedges, node_degrees,
                   hyperedge_degrees, model, graphVars, gcnVars, gtVars>>
    /\ coo' = coo + 1
    /\ UNCHANGED <<loopVars, steps, passes, builds, dataVars>>
    /\ UNCHANGED runVars

\* H = dglsp.from_coo(nodes, hyperedges)
BuildIncidence ==
    /\ notebook = "hgnn"
    /\ pc = "from_coo"
    /\ H' = from_coo(nodes, hyperedges)
    /\ pc' = "degrees"
    /\ UNCHANGED <<notebook, nodes, hyperedges, node_degrees,
                   hyperedge_degrees, model, graphVars, gcnVars, gtVars>>
    /\ coo' = coo + 1
    /\ UNCHANGED <<loopVars, steps, passes, builds, dataVars>>
    /\ UNCHANGED runVars

\* the two sums taken along the wrong dimensions
ComputeDegrees_swapped ==
    /\ notebook = "hgnn"
    /\ pc = "degrees"
    /\ node_degrees' = sum(H, 0)
    /\ hyperedge_degrees' = sum(H, 1)
    /\ pc' = "model"
    /\ UNCHANGED <<notebook, nodes, hyperedges, H, model, graphVars, gcnVars, gtVars>>
    /\ UNCHANGED <<loopVars, countVars, dataVars>>
    /\ UNCHANGED runVars

\* node_degrees = H.sum(1); hyperedge_degrees = H.sum(0)
ComputeDegrees ==
    /\ notebook = "hgnn"
    /\ pc = "degrees"
    /\ node_degrees' = sum(H, 1)
    /\ hyperedge_degrees' = sum(H, 0)
    /\ pc' = "model"
    /\ UNCHANGED <<notebook, nodes, hyperedges, H, model, graphVars, gcnVars, gtVars>>
    /\ UNCHANGED <<loopVars, countVars, dataVars>>
    /\ UNCHANGED runVars

\* model = HGNN(H, ...)
ConstructHGNN ==
    /\ notebook = "hgnn"
    /\ pc = "model"
    /\ model' = HGNN_init(H)
    /\ pc' = "constructed"
    /\ UNCHANGED <<notebook, nodes, hyperedges, H, node_degrees,
                   hyperedge_degrees, graphVars, gcnVars, gtVars>>
    /\ builds' = builds + 1
    /\ UNCHANGED <<loopVars, steps, passes, coo, dataVars>>
    /\ UNCHANGED runVars

NextHGNN == BuildIncidence \/ ComputeDegrees \/ ConstructHGNN

SpecHGNN == InitHGNN /\ [][NextHGNN]_vars

(***************************************************************************)
(* Graph convolution notebook.                                             *)
(***************************************************************************)
\* GCNLayer.forward scaling the rows only
GCNLayer_forward_no_post(Am) ==
    LET I == identity(Am.shape)
        A_hat == SpAdd(Am, I)
        D_hat == diag(sum(A_hat, 0))
        D_hat_invsqrt == SpInvSqrt(D_hat)
    IN [A_hat |-> A_hat, D_hat |-> D_hat, D_hat_invsqrt |-> D_hat_invsqrt,
        L |-> MatMul(D_hat_invsqrt, A_hat)]

\* GCNLayer.forward summing A_hat along dimension 1
GCNLayer_forward_sum1(Am) ==
    LET I == identity(Am.shape)
        A_hat == SpAdd(Am, I)
        D_hat == diag(sum(A_hat, 1))
        D_hat_invsqrt == SpInvSqrt(D_hat)
    IN [A_hat |-> A_hat, D_hat |-> D_hat, D_hat_invsqrt |-> D_hat_invsqrt,
        L |-> MatMul(MatMul(D_hat_invsqrt, A_hat), D_hat_invsqrt)]

\* GCNLayer.forward without the self-loops
GCNLayer_forward_no_loops(Am) ==
    LET A_hat == Am
        D_hat == diag(sum(A_hat, 0))
        D_hat_invsqrt == SpInvSqrt(D_hat)
    IN [A_hat |-> A_hat, D_hat |-> D_hat, D_hat_invsqrt |-> D_hat_invsqrt,
        L |-> MatMul(MatMul(D_hat_invsqrt, A_hat), D_hat_invsqrt)]

\* GCNLayer.forward(A, X): the normalised operator and what it is built from
GCNLayer_forward(Am) ==
    LET I == identity(Am.shape)
        A_hat == SpAdd(Am, I)
        D_hat == diag(sum(A_hat, 0))
        D_hat_invsqrt == SpInvSqrt(D_hat)
    IN [A_hat |-> A_hat, D_hat |-> D_hat, D_hat_invsqrt |-> D_hat_invsqrt,
        L |-> MatMul(MatMul(D_hat_invsqrt, A_hat), D_hat_invsqrt)]

\* the graphs of the dataset: num_nodes nodes, an edge list without repeats
InitGraph ==
    /\ num_nodes \in 1..MaxGraphNodes
    /\ \E S \in Relations(num_nodes, num_nodes, MaxEdges) :
         /\ src = [t \in 1..Cardinality(S) |-> Listed(S)[t][1]]
         /\ dst = [t \in 1..Cardinality(S) |-> Listed(S)[t][2]]

InitGCN ==
    /\ notebook = "gcn"
    /\ pc = "preprocess"
    /\ InitGraph
    /\ A = None /\ conv = None
    /\ nodes = <<>> /\ hyperedges = <<>> /\ H = None
    /\ node_degrees = None /\ hyperedge_degrees = None /\ model = None
    /\ seed = 0 /\ h = None /\ mha = None
    /\ InitLoop /\ InitData

\* train: A = dglsp.from_coo(dst, src, shape=(N, N))
Preprocess ==
    /\ notebook = "gcn"
    /\ pc = "preprocess"
    /\ A' = from_coo_shape(dst, src, <<num_nodes, num_nodes>>)
    /\ pc' = "forward"
    /\ UNCHANGED <<notebook, hgnnVars, graphVars, conv, gtVars>>
    /\ coo' = coo + 1
    /\ UNCHANGED <<loopVars, steps, passes, builds, dataVars>>
    /\ UNCHANGED runVars

\* logits = model(A, features): the operator of a GCNLayer.forward call
Forward ==
    /\ notebook = "gcn"
    /\ pc = "forward"
    /\ conv' = GCNLayer_forward(A)
    /\ pc' = "loss"
    /\ UNCHANGED <<notebook, hgnnVars, graphVars, A, gtVars>>
    /\ builds' = builds + 1
    /\ UNCHANGED <<loopVars, steps, passes, coo, dataVars>>
    /\ UNCHANGED runVars

NextGCN == Preprocess \/ Forward

SpecGCN == InitGCN /\ [][NextGCN]_vars

(***************************************************************************)
(* Hypergraph notebook: load_data and the model built from its result.     *)
(***************************************************************************)
\* load_data without the identity
load_data_no_identity(s, d) ==
    from_coo(d, s)

\* load_data: H = dglsp.from_coo(dst, src); H = H + dglsp.identity(H.shape)
load_data(s, d) ==
    LET Hm == from_coo(d, s)
    IN SpAdd(Hm, identity(Hm.shape))

InitLoadData ==
    /\ notebook = "hgnn"
    /\ pc = "load_data"
    /\ InitGraph
    /\ nodes = <<>> /\ hyperedges = <<>> /\ H = None
    /\ node_degrees = None /\ hyperedge_degrees = None /\ model = None
    /\ A = None /\ conv = None
    /\ seed = 0 /\ h = None /\ mha = None
    /\ InitLoop /\ InitData

\* H, X, Y, ... = load_data(); from_coo cannot infer a shape from empty
\* index lists and raises
LoadData ==
    /\ notebook = "hgnn"
    /\ pc = "load_data"
    /\ IF src = <<>>
       THEN pc' = "raised" /\ H' = H /\ coo' = coo
       ELSE pc' = "model" /\ H' = load_data(src, dst) /\ coo' = coo + 1
    /\ UNCHANGED <<notebook, nodes, hyperedges, node_degrees,
                   hyperedge_degrees, model, graphVars, gcnVars, gtVars>>
    /\ UNCHANGED <<loopVars, steps, passes, builds, dataVars>>
    /\ UNCHANGED runVars

NextLoadData == LoadData \/ ConstructHGNN

SpecLoadData == InitLoadData /\ [][NextLoadData]_vars

(***************************************************************************)
(* Graph transformer notebook.                                             *)
(*                                                                         *)
(* A softmax weight is a quotient of sums of exponentials.  An ExpSum is a *)
(* function from exponents to nonzero coefficients and stands for          *)
(* sum_e coefficient[e] * exp(e); exponentials of distinct exponents are   *)
(* linearly independent, so two ExpSums are equal as numbers exactly when  *)
(* they are equal as functions.  A quotient is [num, den] of two ExpSums.  *)
(***************************************************************************)
EZero == [e \in {} |-> Zero]
EConst(c) == IF c = Zero THEN EZero ELSE [e \in {Zero} |-> c]
\* exp(s)
Exp(s) == [e \in {s} |-> One]
ECoef(P, e) == IF e \in DOMAIN P THEN P[e] ELSE Zero
EAdd(P, Q) ==
    LET co(e) == Add(ECoef(P, e), ECoef(Q, e))
    IN [e \in {x \in DOMAIN P \cup DOMAIN Q : co(x) # Zero} |-> co(e)]
EScale(c, P) ==
    IF c = Zero THEN EZero ELSE [e \in DOMAIN P |-> Mul(c, P[e])]
EMul(P, Q) ==
    LET pairs == (DOMAIN P) \X (DOMAIN Q)
        co(e) == LET at == {pr \in pairs : Add(pr[1], pr[2]) = e}
                 IN SumOver(at, [pr \in at |-> Mul(P[pr[1]], Q[pr[2]])])
    IN [e \in {x \in {Add(pr[1], pr[2]) : pr \in pairs} : co(x) # Zero} |->
          co(e)]

RConst(c) == [num |-> EConst(c), den |-> EConst(One)]
\* quotient times a scalar
RScale(w, c) == [num |-> EScale(c, w.num), den |-> w.den]
RAdd(a, b) ==
    IF a.den = b.den
    THEN [num |-> EAdd(a.num, b.num), den |-> a.den]
    ELSE [num |-> EAdd(EMul(a.num, b.den), EMul(b.num, a.den)),
          den |-> EMul(a.den, b.den)]
\* equality of the numbers two quotients stand for
REq(a, b) == EMul(a.num, b.den) = EMul(b.num, a.den)
\* every coefficient of a quotient is positive and it is not zero
RPositive(a) ==
    /\ a.num # EZero
    /\ \A e \in DOMAIN a.num : a.num[e].n > 0
    /\ \A e \in DOMAIN a.den : a.den[e].n > 0

RECURSIVE RSumOver(_, _)
RSumOver(S, f) ==
    IF S = {} THEN RConst(Zero)
    ELSE LET e == CHOOSE e \in S : TRUE
         IN IF S = {e} THEN f[e] ELSE RAdd(f[e], RSumOver(S \ {e}, f))

RECURSIVE ISum(_, _)
\* f[0] + ... + f[n-1] of integers
ISum(f, n) == IF n = 0 THEN 0 ELSE f[n - 1] + ISum(f, n - 1)

\* SparseMHA(hidden_size, num_heads).__init__
hidden_size == HeadWidth * NumHeads
num_heads == NumHeads
head_dim == hidden_size \div num_heads
scaling == PowInvSqrt(FromInt(head_dim))

\* the parameters of an nn.Linear(hidden_size, hidden_size), drawn by s
weight(s, o, c) == ((s + 2 * o + 3 * c + o * c) % 3) - 1
bias(s, o) == (s + o) % 2

\* nn.Linear applied to the rows of x: x W^T + b
Linear(s, x) ==
    [i \in DOMAIN x |-> [o \in 0..(hidden_size - 1) |->
        bias(s, o) + ISum([c \in 0..(hidden_size - 1) |->
                             weight(s, o, c) * x[i][c]], hidden_size)]]

\* x.reshape(N, head_dim, num_heads) of a row-major [N, hidden_size] tensor
reshape(x) ==
    [i \in DOMAIN x |-> [d \in 0..(head_dim - 1) |->
        [b \in 0..(num_heads - 1) |-> FromInt(x[i][d * num_heads + b])]]]

\* x.transpose(1, 0)
transpose10(x) ==
    [d \in 0..(head_dim - 1) |-> [i \in DOMAIN x |-> x[i][d]]]

\* dglsp.bsddmm(Am, X1, X2): (X1 @ X2) * Am at the stored positions of Am,
\* for every head b
bsddmm(Am, X1, X2) ==
    [shape |-> Am.shape,
     val |-> [p \in Pos(Am) |-> [b \in 0..(num_heads - 1) |->
        Mul(Am.val[p],
            SumOver(DOMAIN X2, [m \in DOMAIN X2 |->
                Mul(X1[p[1]][m][b], X2[m][p[2]][b])]))]]]

\* the sum of exp(S[q][b]) over the positions q of a set
SumExp(S, at, b) ==
    [e \in {S.val[q][b] : q \in at} |->
        FromInt(Cardinality({q \in at : S.val[q][b] = e}))]

\* SparseMatrix.softmax(): over the stored entries of each row, per head
softmax(S) ==
    [shape |-> S.shape,
     val |-> [p \in Pos(S) |-> [b \in 0..(num_heads - 1) |->
        [num |-> Exp(S.val[p][b]),
         den |-> SumExp(S, {q \in Pos(S) : q[1] = p[1]}, b)]]]]

\* dglsp.bspmm(W, X): the dense product W @ X, for every head b
bspmm(W, Xm) ==
    [i \in 0..(W.shape[1] - 1) |-> [d \in 0..(head_dim - 1) |->
        [b \in 0..(num_heads - 1) |->
            LET at == {p \in Pos(W) : p[1] = i}
            IN RSumOver(at, [p \in at |->
                   RScale(W.val[p][b], Xm[p[2]][d][b])])]]]

\* q, k and v of SparseMHA.forward
Projections(s, hm) ==
    LET q0 == reshape(Linear(3 * s, hm))
    IN [q |-> [i \in DOMAIN hm |-> [d \in 0..(head_dim - 1) |->
                 [b \in 0..(num_heads - 1) |-> Mul(q0[i][d][b], scaling)]]],
        k |-> reshape(Linear(3 * s + 1, hm)),
        v |-> reshape(Linear(3 * s + 2, hm))]

\* softmax taken over all N columns of a row, absent entries scoring 0
softmax_dense(S) ==
    [shape |-> S.shape,
     val |-> [p \in Pos(S) |-> [b \in 0..(num_heads - 1) |->
        LET at == {q \in Pos(S) : q[1] = p[1]}
        IN [num |-> Exp(S.val[p][b]),
            den |-> EAdd(SumExp(S, at, b),
                         EConst(FromInt(S.shape[2] - Cardinality(at))))]]]]

\* softmax taken along the columns
softmax_columns(S) ==
    [shape |-> S.shape,
     val |-> [p \in Pos(S) |-> [b \in 0..(num_heads - 1) |->
        [num |-> Exp(S.val[p][b]),
         den |-> SumExp(S, {q \in Pos(S) : q[2] = p[2]}, b)]]]]

\* SparseMHA.forward with a dense softmax
SparseMHA_forward_dense(s, Am, hm) ==
    LET pr == Projections(s, hm)
        attn == softmax_dense(bsddmm(Am, pr.q, transpose10(pr.k)))
    IN [v |-> pr.v, attn |-> attn, out |-> bspmm(attn, pr.v)]

\* SparseMHA.forward normalising each column
SparseMHA_forward_columns(s, Am, hm) ==
    LET pr == Projections(s, hm)
        attn == softmax_columns(bsddmm(Am, pr.q, transpose10(pr.k)))
    IN [v |-> pr.v, attn |-> attn, out |-> bspmm(attn, pr.v)]

\* SparseMHA.forward attending from every node to itself as well
SparseMHA_forward_self(s, Am, hm) ==
    LET pr == Projections(s, hm)
        attn == softmax(bsddmm(SpAdd(Am, identity(Am.shape)),
                               pr.q, transpose10(pr.k)))
    IN [v |-> pr.v, attn |-> attn, out |-> bspmm(attn, pr.v)]

\* SparseMHA.forward(A, h) up to the aggregated output `out`; s selects the
\* parameters of q_proj, k_proj and v_proj
SparseMHA_forward(s, Am, hm) ==
    LET pr == Projections(s, hm)
        attn == softmax(bsddmm(Am, pr.q, transpose10(pr.k)))
    IN [v |-> pr.v, attn |-> attn, out |-> bspmm(attn, pr.v)]

\* node features of a (batched) graph of n nodes, drawn by s
Features(s, n) ==
    [i \in 0..(n - 1) |-> [c \in 0..(hidden_size - 1) |->
        (((s + 1) * (i + 1) + c * i) % 3) - 1]]

InitGT ==
    /\ notebook = "gt"
    /\ pc = "adjacency"
    /\ InitGraph
    /\ seed \in 0..(NumSeeds - 1)
    /\ h = Features(seed, num_nodes)
    /\ A = None /\ conv = None /\ mha = None
    /\ nodes = <<>> /\ hyperedges = <<>> /\ H = None
    /\ node_degrees = None /\ hyperedge_degrees = None /\ model = None
    /\ InitLoop /\ InitData

\* GTModel.forward: A = dglsp.from_coo(dst, src, shape=(N, N))
BuildAdjacency ==
    /\ notebook = "gt"
    /\ pc = "adjacency"
    /\ A' = from_coo_shape(dst, src, <<num_nodes, num_nodes>>)
    /\ pc' = "layer"
    /\ UNCHANGED <<notebook, hgnnVars, graphVars, conv, gtVars>>
    /\ coo' = coo + 1
    /\ UNCHANGED <<loopVars, steps, passes, builds, dataVars>>
    /\ UNCHANGED runVars

\* GTLayer.forward: h = self.MHA(A, h)
Attention ==
    /\ notebook = "gt"
    /\ pc = "layer"
    /\ mha' = SparseMHA_forward(seed, A, h)
    /\ pc' = "attended"
    /\ UNCHANGED <<notebook, hgnnVars, graphVars, gcnVars, seed, h>>
    /\ builds' = builds + 1
    /\ UNCHANGED <<loopVars, steps, passes, coo, dataVars>>
    /\ UNCHANGED runVars

NextGT == BuildAdjacency \/ Attention

SpecGT == InitGT /\ [][NextGT]_vars

(***************************************************************************)
(* Training loops.  The activations X of a forward pass are written as the *)
(* list of the operations applied to the input features so far: "W1",      *)
(* "W2", "conv1.W", "conv2.W" are the linear projections, "L" is the       *)
(* product with the propagation operator.                                  *)
(***************************************************************************)
\* with tqdm.trange(500)
HGNN_epochs == 500

\* for epoch in range(100)
GCN_epochs == 100

\* if epoch % 5 == 0
report_every == 5

\* the graphs the training runs start from: an undirected edge, a directed
\* cycle, and three nodes of which the last has no edge
TrainingGraphs ==
    {[num_nodes |-> 2, src |-> <<0, 1>>, dst |-> <<1, 0>>],
     [num_nodes |-> 3, src |-> <<0, 1, 2>>, dst |-> <<1, 2, 0>>],
     [num_nodes |-> 3, src |-> <<0>>, dst |-> <<1>>]}

InitTrainingGraph ==
    \E g \in TrainingGraphs :
        num_nodes = g.num_nodes /\ src = g.src /\ dst = g.dst

\* nn.Dropout(0.5): acts in training mode only
dropout(Xc, m) == IF m = "train" THEN Append(Xc, "dropout") ELSE Xc

\* F.relu
relu(Xc) == Append(Xc, "relu")

\* a layer of HGNN.forward: X = self.L @ W(self.dropout(X))
HGNN_layer(Xc, W, m) == Append(Append(dropout(Xc, m), W), "L")

\* GCNLayer.forward applying the operator before the projection
GCNLayer_apply_swapped(Xc, W) == Append(Append(Xc, "L"), W)

\* GCNLayer.forward: D_hat_invsqrt @ A_hat @ D_hat_invsqrt @ self.W(X)
GCNLayer_apply(Xc, W) == Append(Append(Xc, W), "L")

\* the assignments of a step to the loop variables and to the counters
Loop(e, m, g, x, out, pf) ==
    /\ epoch' = e /\ mode' = m /\ grad' = g
    /\ X' = x /\ stdout' = out /\ postfix' = pf

Count(s, p, b) == steps' = s /\ passes' = p /\ builds' = b /\ coo' = coo

\* what a training loop of the hypergraph notebook leaves alone
hgnnStatic == <<notebook, hgnnVars, graphVars, gcnVars, gtVars, dataVars>>

\* what a training loop of the graph convolution notebook leaves alone
gcnStatic == <<notebook, hgnnVars, graphVars, A, gtVars, dataVars>>

InitTrainHGNN ==
    /\ notebook = "hgnn"
    /\ pc = "load_data"
    /\ InitTrainingGraph
    /\ nodes = <<>> /\ hyperedges = <<>> /\ H = None
    /\ node_degrees = None /\ hyperedge_degrees = None /\ model = None
    /\ A = None /\ conv = None
    /\ seed = 0 /\ h = None /\ mha = None
    /\ InitLoop /\ InitData

\* optimizer = torch.optim.Adam(model.parameters(), lr=0.001)
HGNN_optimizer ==
    /\ notebook = "hgnn" /\ num_nodes > 0
    /\ pc = "constructed"
    /\ pc' = "loop"
    /\ UNCHANGED <<hgnnStatic, loopVars, countVars>>
    /\ UNCHANGED runVars

\* for epoch in tq: the next iteration, or the end of the loop
HGNN_loop ==
    /\ notebook = "hgnn"
    /\ pc = "loop"
    /\ pc' = IF epoch < HGNN_epochs THEN "train" ELSE "print"
    /\ UNCHANGED <<hgnnStatic, loopVars, countVars>>
    /\ UNCHANGED runVars

\* train: model.train(); Y_hat = model(X) is entered
HGNN_train ==
    /\ notebook = "hgnn"
    /\ pc = "train"
    /\ Loop(epoch, "train", grad, <<>>, stdout, postfix)
    /\ Count(steps, passes + 1, builds)
    /\ caller' = "train"
    /\ pc' = "layer1"
    /\ UNCHANGED hgnnStatic
    /\ UNCHANGED <<lr, last_epoch, step_lrs, logits, val_acc>>

\* HGNN.forward: X = self.L @ self.W1(self.dropout(X)); the product raises
\* when L has not one column per row of X
HGNN_layer1 ==
    /\ notebook = "hgnn"
    /\ pc = "layer1"
    /\ IF model.L.shape[2] = num_nodes
       THEN /\ Loop(epoch, mode, grad, HGNN_layer(X, "W1", mode), stdout, postfix)
            /\ pc' = "relu"
       ELSE /\ Loop(epoch, mode, grad, X, stdout, postfix)
            /\ pc' = "raised"
    /\ Count(steps, passes, builds)
    /\ UNCHANGED hgnnStatic
    /\ UNCHANGED runVars

\* HGNN.forward: X = F.relu(X)
HGNN_relu ==
    /\ notebook = "hgnn"
    /\ pc = "relu"
    /\ Loop(epoch, mode, grad, relu(X), stdout, postfix)
    /\ Count(steps, passes, builds)
    /\ pc' = "layer2"
    /\ UNCHANGED hgnnStatic
    /\ UNCHANGED runVars

\* HGNN.forward: X = self.L @ self.W2(self.dropout(X)); return X
HGNN_layer2 ==
    /\ notebook = "hgnn"
    /\ pc = "layer2"
    /\ Loop(epoch, mode, grad, HGNN_layer(X, "W2", mode), stdout, postfix)
    /\ Count(steps, passes, builds)
    /\ pc' = IF caller = "train" THEN "loss" ELSE "set_postfix"
    /\ UNCHANGED hgnnStatic
    /\ UNCHANGED runVars

\* train: loss = F.cross_entropy(Y_hat[train_mask], Y[train_mask])
HGNN_loss ==
    /\ notebook = "hgnn"
    /\ pc = "loss"
    /\ pc' = "zero_grad"
    /\ UNCHANGED <<hgnnStatic, loopVars, countVars>>
    /\ UNCHANGED runVars

\* train: optimizer.zero_grad()
HGNN_zero_grad ==
    /\ notebook = "hgnn"
    /\ pc = "zero_grad"
    /\ Loop(epoch, mode, "zero", X, stdout, postfix)
    /\ Count(steps, passes, builds)
    /\ pc' = "backward"
    /\ UNCHANGED hgnnStatic
    /\ UNCHANGED runVars

\* train: loss.backward()
HGNN_backward ==
    /\ notebook = "hgnn"
    /\ pc = "backward"
    /\ Loop(epoch, mode, "computed", X, stdout, postfix)
    /\ Count(steps, passes, builds)
    /\ pc' = "step"
    /\ UNCHANGED hgnnStatic
    /\ UNCHANGED runVars

\* train: optimizer.step()
HGNN_step ==
    /\ notebook = "hgnn"
    /\ pc = "step"
    /\ Loop(epoch, mode, grad, X, stdout, postfix)
    /\ Count(steps + 1, passes, builds)
    /\ pc' = "evaluate"
    /\ UNCHANGED hgnnStatic
    /\ UNCHANGED runVars

\* evaluate without its call of model.eval()
HGNN_evaluate_no_eval ==
    /\ notebook = "hgnn"
    /\ pc = "evaluate"
    /\ Loop(epoch, mode, grad, <<>>, stdout, postfix)
    /\ Count(steps, passes + 1, builds)
    /\ caller' = "evaluate"
    /\ pc' = "layer1"
    /\ UNCHANGED hgnnStatic
    /\ UNCHANGED <<lr, last_epoch, step_lrs, logits, val_acc>>


\* evaluate: model.eval(); Y_hat = model(X) is entered
HGNN_evaluate ==
    /\ notebook = "hgnn"
    /\ pc = "evaluate"
    /\ Loop(epoch, "eval", grad, <<>>, stdout, postfix)
    /\ Count(steps, passes + 1, builds)
    /\ caller' = "evaluate"
    /\ pc' = "layer1"
    /\ UNCHANGED hgnnStatic
    /\ UNCHANGED <<lr, last_epoch, step_lrs, logits, val_acc>>

\* evaluate returns val_acc and test_acc; tq.set_postfix({"Val acc": ...,
\* "Test acc": ...}, refresh=False); the iteration ends
HGNN_set_postfix ==
    /\ notebook = "hgnn"
    /\ pc = "set_postfix"
    /\ Loop(epoch + 1, mode, grad, X, stdout,
            <<[epoch |-> epoch, fields |-> {"Val acc", "Test acc"}]>>)
    /\ Count(steps, passes, builds)
    /\ pc' = "loop"
    /\ UNCHANGED hgnnStatic
    /\ UNCHANGED runVars

\* print(f"Test acc: {test_acc:.3f}") after the loop
HGNN_print ==
    /\ notebook = "hgnn"
    /\ pc = "print"
    /\ Loop(epoch, mode, grad, X,
            Append(stdout, [epoch |-> epoch - 1, fields |-> {"Test acc"}]),
            postfix)
    /\ Count(steps, passes, builds)
    /\ pc' = "done"
    /\ UNCHANGED hgnnStatic
    /\ UNCHANGED runVars

NextTrainHGNN ==
    \/ LoadData \/ ConstructHGNN \/ HGNN_optimizer \/ HGNN_loop
    \/ HGNN_train \/ HGNN_layer1 \/ HGNN_relu \/ HGNN_layer2
    \/ HGNN_loss \/ HGNN_zero_grad \/ HGNN_backward \/ HGNN_step
    \/ HGNN_evaluate \/ HGNN_set_postfix \/ HGNN_print

InitTrainGCN ==
    /\ notebook = "gcn"
    /\ pc = "setup"
    /\ InitTrainingGraph
    /\ A = None /\ conv = None
    /\ nodes = <<>> /\ hyperedges = <<>> /\ H = None
    /\ node_degrees = None /\ hyperedge_degrees = None /\ model = None
    /\ seed = 0 /\ h = None /\ mha = None
    /\ InitLoop /\ InitData

\* train: the optimizer and the loss function are created;
\* A = dglsp.from_coo(dst, src, shape=(N, N))
GCN_setup ==
    /\ notebook = "gcn"
    /\ pc = "setup"
    /\ A' = from_coo_shape(dst, src, <<num_nodes, num_nodes>>)
    /\ coo' = coo + 1
    /\ pc' = "loop"
    /\ UNCHANGED <<notebook, hgnnVars, graphVars, conv, gtVars, dataVars,
                   loopVars, steps, passes, builds>>
    /\ UNCHANGED runVars

\* for epoch in range(100): model.train(); logits = model(A, features) is
\* entered; or the loop ends
GCN_loop ==
    /\ notebook = "gcn"
    /\ pc = "loop"
    /\ IF epoch < GCN_epochs
       THEN /\ Loop(epoch, "train", grad, <<>>, stdout, postfix)
            /\ Count(steps, passes + 1, builds)
            /\ pc' = "conv1"
       ELSE /\ Loop(epoch, mode, grad, X, stdout, postfix)
            /\ Count(steps, passes, builds)
            /\ pc' = "done"
    /\ UNCHANGED <<gcnStatic, conv>>
    /\ UNCHANGED runVars

\* GCN.forward: X = self.conv1(A, X)
GCN_conv1 ==
    /\ notebook = "gcn"
    /\ pc = "conv1"
    /\ conv' = GCNLayer_forward(A)
    /\ Loop(epoch, mode, grad, GCNLayer_apply(X, "conv1.W"), stdout, postfix)
    /\ Count(steps, passes, builds + 1)
    /\ pc' = "relu"
    /\ UNCHANGED gcnStatic
    /\ UNCHANGED runVars

\* GCN.forward: X = F.relu(X)
GCN_relu ==
    /\ notebook = "gcn"
    /\ pc = "relu"
    /\ Loop(epoch, mode, grad, relu(X), stdout, postfix)
    /\ Count(steps, passes, builds)
    /\ pc' = "conv2"
    /\ UNCHANGED <<gcnStatic, conv>>
    /\ UNCHANGED runVars

\* GCN.forward: return self.conv2(A, X)
GCN_conv2 ==
    /\ notebook = "gcn"
    /\ pc = "conv2"
    /\ conv' = GCNLayer_forward(A)
    /\ Loop(epoch, mode, grad, GCNLayer_apply(X, "conv2.W"), stdout, postfix)
    /\ Count(steps, passes, builds + 1)
    /\ logits' = steps
    /\ pc' = "loss"
    /\ UNCHANGED gcnStatic
    /\ UNCHANGED <<lr, last_epoch, step_lrs, val_acc, caller>>

\* train: loss = loss_fcn(logits[train_mask], label[train_mask])
GCN_loss ==
    /\ notebook = "gcn"
    /\ pc = "loss"
    /\ pc' = "zero_grad"
    /\ UNCHANGED <<gcnStatic, conv, loopVars, countVars>>
    /\ UNCHANGED runVars

\* train: optimizer.zero_grad()
GCN_zero_grad ==
    /\ notebook = "gcn"
    /\ pc = "zero_grad"
    /\ Loop(epoch, mode, "zero", X, stdout, postfix)
    /\ Count(steps, passes, builds)
    /\ pc' = "backward"
    /\ UNCHANGED <<gcnStatic, conv>>
    /\ UNCHANGED runVars

\* train: loss.backward()
GCN_backward ==
    /\ notebook = "gcn"
    /\ pc = "backward"
    /\ Loop(epoch, mode, "computed", X, stdout, postfix)
    /\ Count(steps, passes, builds)
    /\ pc' = "step"
    /\ UNCHANGED <<gcnStatic, conv>>
    /\ UNCHANGED runVars

\* train: optimizer.step()
GCN_step ==
    /\ notebook = "gcn"
    /\ pc = "step"
    /\ Loop(epoch, mode, grad, X, stdout, postfix)
    /\ Count(steps + 1, passes, builds)
    /\ pc' = "evaluate"
    /\ UNCHANGED <<gcnStatic, conv>>
    /\ UNCHANGED runVars

\* an evaluation that measures the parameters as they are after the step
GCN_evaluate_updated ==
    /\ notebook = "gcn"
    /\ pc = "evaluate"
    /\ val_acc' = steps
    /\ pc' = "report"
    /\ UNCHANGED <<gcnStatic, conv, loopVars, countVars>>
    /\ UNCHANGED <<lr, last_epoch, step_lrs, logits, caller>>

\* train: pred = logits.argmax(dim=1); val_acc, test_acc = evaluate(g, pred):
\* the accuracies are those of the logits computed before the step
GCN_evaluate ==
    /\ notebook = "gcn"
    /\ pc = "evaluate"
    /\ val_acc' = logits
    /\ pc' = "report"
    /\ UNCHANGED <<gcnStatic, conv, loopVars, countVars>>
    /\ UNCHANGED <<lr, last_epoch, step_lrs, logits, caller>>

\* train printing its report in every epoch
GCN_report_always ==
    /\ notebook = "gcn"
    /\ pc = "report"
    /\ Loop(epoch + 1, mode, grad, X,
            Append(stdout, [epoch |-> epoch,
                            fields |-> {"loss", "val acc", "test acc"}]),
            postfix)
    /\ Count(steps, passes, builds)
    /\ pc' = "loop"
    /\ UNCHANGED <<gcnStatic, conv>>
    /\ UNCHANGED runVars

\* train: if epoch % 5 == 0: print(f"In epoch {epoch}, loss: ..., val acc:
\* ..., test acc: ..."); the iteration ends
GCN_report ==
    /\ notebook = "gcn"
    /\ pc = "report"
    /\ Loop(epoch + 1, mode, grad, X,
            IF epoch % report_every = 0
            THEN Append(stdout, [epoch |-> epoch,
                                 fields |-> {"loss", "val acc", "test acc"}])
            ELSE stdout,
            postfix)
    /\ Count(steps, passes, builds)
    /\ pc' = "loop"
    /\ UNCHANGED <<gcnStatic, conv>>
    /\ UNCHANGED runVars

NextTrainGCN ==
    \/ GCN_setup \/ GCN_loop \/ GCN_conv1 \/ GCN_relu \/ GCN_conv2
    \/ GCN_loss \/ GCN_zero_grad \/ GCN_backward \/ GCN_step
    \/ GCN_evaluate \/ GCN_report

\* num_epochs = 20
num_epochs == 20

\* pos_enc_size = 8
pos_enc_size == 8

\* GTModel(..., num_layers=8, ...)
num_layers == 8

\* the splits of the loaded dataset: each holds one graph more than the
\* down-sampling keeps
OrigTrain == 0..TrainSample
OrigVal == (TrainSample + 1)..(TrainSample + EvalSample + 1)
OrigTest == (TrainSample + EvalSample + 2)..(TrainSample + 2 * EvalSample + 2)
Dataset == OrigTrain \cup OrigVal \cup OrigTest

\* graph i of the dataset: a path of one, two or three atoms, every bond
\* listed in both directions
Molecule(i) ==
    LET n == (i % 3) + 1
    IN [num_nodes |-> n,
        src |-> [t \in 1..(2 * (n - 1)) |->
                    IF t <= n - 1 THEN t - 1 ELSE t - (n - 1)],
        dst |-> [t \in 1..(2 * (n - 1)) |->
                    IF t <= n - 1 THEN t ELSE t - (n - 1) - 1]]

Min(S) == CHOOSE m \in S : \A e \in S : m <= e

RECURSIVE batch(_)
\* collate_dgl: the graphs S as one graph, the node ids of each graph
\* shifted behind those of the graphs before it
batch(S) ==
    IF S = {} THEN [num_nodes |-> 0, src |-> <<>>, dst |-> <<>>]
    ELSE LET last == Max(S)
             rest == batch(S \ {last})
             g == Molecule(last)
         IN [num_nodes |-> rest.num_nodes + g.num_nodes,
             src |-> rest.src \o [t \in DOMAIN g.src |-> g.src[t] + rest.num_nodes],
             dst |-> rest.dst \o [t \in DOMAIN g.dst |-> g.dst[t] + rest.num_nodes]]

\* the Laplacian PE loop visiting the training graphs only
indices_train_only == train_idx

\* indices = torch.cat([dataset.train_idx, dataset.val_idx, dataset.test_idx])
indices == train_idx \cup val_idx \cup test_idx

\* the graphs the PE loop has not reached yet
pending == {i \in indices : PE[i] = 0}

\* what the loops of the graph transformer notebook leave alone
gtStatic == <<notebook, hgnnVars, conv, gtVars>>

InitTrainGT ==
    /\ notebook = "gt"
    /\ pc = "downsample"
    /\ train_idx = OrigTrain /\ val_idx = OrigVal /\ test_idx = OrigTest
    /\ PE = [i \in Dataset |-> 0]
    /\ pos_linear = 0
    /\ loader = None /\ queue = {} /\ batched_g = {}
    /\ src = <<>> /\ dst = <<>> /\ num_nodes = 0
    /\ A = None /\ conv = None
    /\ nodes = <<>> /\ hyperedges = <<>> /\ H = None
    /\ node_degrees = None /\ hyperedge_degrees = None /\ model = None
    /\ seed = 0 /\ h = None /\ mha = None
    /\ InitLoop

\* the three splits are down-sampled with random.sample
GT_downsample ==
    /\ notebook = "gt"
    /\ pc = "downsample"
    /\ \E tr \in SUBSET train_idx, va \in SUBSET val_idx, te \in SUBSET test_idx :
         /\ Cardinality(tr) = TrainSample
         /\ Cardinality(va) = EvalSample
         /\ Cardinality(te) = EvalSample
         /\ train_idx' = tr /\ val_idx' = va /\ test_idx' = te
    /\ pc' = "pe"
    /\ UNCHANGED <<gtStatic, graphVars, A, loopVars, countVars, PE,
                   pos_linear, loader, queue, batched_g>>
    /\ UNCHANGED runVars

\* for idx in indices: g.ndata["PE"] = dgl.laplacian_pe(g, k=pos_enc_size,
\* padding=True)
GT_laplacian_pe ==
    /\ notebook = "gt"
    /\ pc = "pe"
    /\ pending # {}
    /\ PE' = [PE EXCEPT ![Min(pending)] = pos_enc_size]
    /\ UNCHANGED <<pc, gtStatic, graphVars, A, loopVars, countVars, train_idx,
                   val_idx, test_idx, pos_linear, loader, queue, batched_g>>
    /\ UNCHANGED runVars

\* model = GTModel(out_size=out_size, pos_enc_size=pos_enc_size)
GT_create_model ==
    /\ notebook = "gt"
    /\ pc = "pe"
    /\ pending = {}
    /\ pos_linear' = pos_enc_size
    /\ pc' = "train"
    /\ UNCHANGED <<gtStatic, graphVars, A, loopVars, countVars, train_idx,
                   val_idx, test_idx, PE, loader, queue, batched_g>>
    /\ UNCHANGED runVars

\* optimizer = optim.Adam(model.parameters(), lr=0.001)
lr_init == Norm(1, 1000, 1)
\* optim.lr_scheduler.StepLR(optimizer, step_size=num_epochs, gamma=0.5)
gamma == Norm(1, 2, 1)
\* a scheduler that halves the learning rate in the middle of the run
step_size_half == num_epochs \div 2
step_size == num_epochs

\* StepLR.step(): the count of steps grows by one, and the learning rate
\* is multiplied by gamma each time the count reaches a multiple of
\* step_size
StepLR_step(rate, count) ==
    [last_epoch |-> count + 1,
     lr |-> IF (count + 1) % step_size = 0 THEN Mul(rate, gamma) ELSE rate]

\* train: the dataloaders, the optimizer, the scheduler and the loss
\* function are created
GT_train ==
    /\ notebook = "gt"
    /\ pc = "train"
    /\ lr' = lr_init
    /\ last_epoch' = 0
    /\ pc' = "loop"
    /\ UNCHANGED <<gtStatic, graphVars, A, loopVars, countVars, dataVars>>
    /\ UNCHANGED <<step_lrs, logits, val_acc, caller>>

\* for epoch in range(num_epochs): model.train(); total_loss = 0.0; the
\* training dataloader is iterated; or the loop ends
GT_loop ==
    /\ notebook = "gt"
    /\ pc = "loop"
    /\ IF epoch < num_epochs
       THEN /\ Loop(epoch, "train", grad, X, stdout, postfix)
            /\ loader' = "train" /\ queue' = train_idx
            /\ pc' = "batch"
       ELSE /\ Loop(epoch, mode, grad, X, stdout, postfix)
            /\ loader' = loader /\ queue' = queue
            /\ pc' = "done"
    /\ UNCHANGED <<gtStatic, graphVars, A, countVars, train_idx, val_idx,
                   test_idx, PE, pos_linear, batched_g>>
    /\ UNCHANGED runVars

\* for batched_g, labels in dataloader: the next mini-batch, at most
\* batch_size graphs the dataloader has not served yet
GT_batch ==
    /\ notebook = "gt"
    /\ pc = "batch"
    /\ queue # {}
    /\ \E B \in SUBSET queue :
         /\ Cardinality(B) = Min({BatchSize, Cardinality(queue)})
         /\ batched_g' = B
         /\ queue' = queue \ B
         /\ num_nodes' = batch(B).num_nodes
         /\ src' = batch(B).src
         /\ dst' = batch(B).dst
    /\ pc' = "forward"
    /\ UNCHANGED <<gtStatic, A, loopVars, countVars, train_idx, val_idx,
                   test_idx, PE, pos_linear, loader>>
    /\ UNCHANGED runVars

\* GTModel.forward with the adjacency matrix built once and kept
GT_forward_cached ==
    /\ notebook = "gt"
    /\ pc = "forward"
    /\ IF \A i \in batched_g : PE[i] = pos_linear
       THEN /\ A' = IF coo = 0
                    THEN from_coo_shape(dst, src, <<num_nodes, num_nodes>>)
                    ELSE A
            /\ steps' = steps /\ passes' = passes + 1
            /\ builds' = builds + num_layers
            /\ coo' = IF coo = 0 THEN coo + 1 ELSE coo
            /\ pc' = IF loader = "train" THEN "loss" ELSE "batch"
       ELSE /\ A' = A
            /\ UNCHANGED countVars
            /\ pc' = "raised"
    /\ UNCHANGED <<gtStatic, graphVars, loopVars, dataVars>>
    /\ UNCHANGED runVars

\* model(batched_g, feat, PE): GTModel.forward builds
\* A = dglsp.from_coo(dst, src, shape=(N, N)), adds pos_linear(pos_enc) to
\* the atom encoding and runs the layers, each computing its attention
\* matrix on A; pos_linear raises on a PE of another width or a missing PE
GT_forward ==
    /\ notebook = "gt"
    /\ pc = "forward"
    /\ IF \A i \in batched_g : PE[i] = pos_linear
       THEN /\ A' = from_coo_shape(dst, src, <<num_nodes, num_nodes>>)
            /\ steps' = steps /\ passes' = passes + 1
            /\ builds' = builds + num_layers
            /\ coo' = coo + 1
            /\ pc' = IF loader = "train" THEN "loss" ELSE "batch"
       ELSE /\ A' = A
            /\ UNCHANGED countVars
            /\ pc' = "raised"
    /\ UNCHANGED <<gtStatic, graphVars, loopVars, dataVars>>
    /\ UNCHANGED runVars

\* train: loss = loss_fcn(logits, labels.float()); total_loss += loss.item()
GT_loss ==
    /\ notebook = "gt"
    /\ pc = "loss"
    /\ pc' = "zero_grad"
    /\ UNCHANGED <<gtStatic, graphVars, A, loopVars, countVars, dataVars>>
    /\ UNCHANGED runVars

\* train: optimizer.zero_grad()
GT_zero_grad ==
    /\ notebook = "gt"
    /\ pc = "zero_grad"
    /\ Loop(epoch, mode, "zero", X, stdout, postfix)
    /\ pc' = "backward"
    /\ UNCHANGED <<gtStatic, graphVars, A, countVars, dataVars>>
    /\ UNCHANGED runVars

\* train: loss.backward()
GT_backward ==
    /\ notebook = "gt"
    /\ pc = "backward"
    /\ Loop(epoch, mode, "computed", X, stdout, postfix)
    /\ pc' = "step"
    /\ UNCHANGED <<gtStatic, graphVars, A, countVars, dataVars>>
    /\ UNCHANGED runVars

\* train: optimizer.step(); the next mini-batch follows
GT_step ==
    /\ notebook = "gt"
    /\ pc = "step"
    /\ Count(steps + 1, passes, builds)
    /\ step_lrs' = step_lrs \cup {lr}
    /\ pc' = "batch"
    /\ UNCHANGED <<gtStatic, graphVars, A, loopVars, dataVars>>
    /\ UNCHANGED <<lr, last_epoch, logits, val_acc, caller>>

\* train: the training dataloader is exhausted; scheduler.step();
\* avg_loss = total_loss / len(train_dataloader); evaluate is called on
\* the validation dataloader
GT_scheduler_step ==
    /\ notebook = "gt"
    /\ pc = "batch"
    /\ loader = "train"
    /\ queue = {}
    /\ lr' = StepLR_step(lr, last_epoch).lr
    /\ last_epoch' = StepLR_step(lr, last_epoch).last_epoch
    /\ loader' = "valid"
    /\ pc' = "evaluate"
    /\ UNCHANGED <<gtStatic, graphVars, A, loopVars, countVars, train_idx,
                   val_idx, test_idx, PE, pos_linear, queue, batched_g>>
    /\ UNCHANGED <<step_lrs, logits, val_acc, caller>>

\* evaluate: model.eval(); the dataloader is iterated
GT_evaluate ==
    /\ notebook = "gt"
    /\ pc = "evaluate"
    /\ Loop(epoch, "eval", grad, X, stdout, postfix)
    /\ queue' = IF loader = "valid" THEN val_idx ELSE test_idx
    /\ pc' = "batch"
    /\ UNCHANGED <<gtStatic, graphVars, A, countVars, train_idx, val_idx,
                   test_idx, PE, pos_linear, loader, batched_g>>
    /\ UNCHANGED runVars

\* evaluate: the dataloader is exhausted and the metric is returned; the
\* test dataloader follows the validation dataloader
GT_evaluate_return ==
    /\ notebook = "gt"
    /\ pc = "batch"
    /\ loader \in {"valid", "test"}
    /\ queue = {}
    /\ IF loader = "valid"
       THEN loader' = "test" /\ pc' = "evaluate"
       ELSE loader' = loader /\ pc' = "print"
    /\ UNCHANGED <<gtStatic, graphVars, A, loopVars, countVars, train_idx,
                   val_idx, test_idx, PE, pos_linear, queue, batched_g>>
    /\ UNCHANGED runVars

\* train: print(f"Epoch: {epoch:03d}, Loss: ..., Val: ..., Test: ...");
\* the iteration ends
GT_print ==
    /\ notebook = "gt"
    /\ pc = "print"
    /\ Loop(epoch + 1, mode, grad, X,
            Append(stdout, [epoch |-> epoch,
                            fields |-> {"Loss", "Val", "Test"}]),
            postfix)
    /\ pc' = "loop"
    /\ UNCHANGED <<gtStatic, graphVars, A, countVars, dataVars>>
    /\ UNCHANGED runVars

NextTrainGT ==
    \/ GT_downsample \/ GT_laplacian_pe \/ GT_create_model \/ GT_train
    \/ GT_loop \/ GT_batch \/ GT_forward \/ GT_loss \/ GT_zero_grad
    \/ GT_backward \/ GT_step \/ GT_scheduler_step \/ GT_evaluate
    \/ GT_evaluate_return \/ GT_print

SpecTrainGT == InitTrainGT /\ [][NextTrainGT]_vars

InitTraining == InitTrainHGNN \/ InitTrainGCN \/ InitTrainGT

NextTraining == NextTrainHGNN \/ NextTrainGCN \/ NextTrainGT

SpecTraining == InitTraining /\ [][NextTraining]_vars

(***************************************************************************)
(* Properties of the hypergraph operator.                                  *)
(***************************************************************************)
\* the relation R listed by nodes / hyperedges
R == {<<nodes[t], hyperedges[t]>> : t \in DOMAIN nodes}
Rows == 0..Max(Range(nodes))
Cols == 0..Max(Range(hyperedges))
degree_row(i) == Cardinality({p \in R : p[1] = i})
degree_col(j) == Cardinality({p \in R : p[2] = j})

Constructed == notebook = "hgnn" /\ pc = "constructed"

\* every row and every column of R has degree >= 1
NoZeroDegree ==
    /\ \A i \in Rows : degree_row(i) >= 1
    /\ \A j \in Cols : degree_col(j) >= 1

\* C1: when no row and no column of R has degree zero, the operator L
\* built by HGNN.__init__ is symmetric: L[i,k] = L[k,i] for all nodes i, k.
C1_HypergraphSymmetric ==
    (Constructed /\ NoZeroDegree) =>
        \A i, k \in Rows : At(model.L, i, k) = At(model.L, k, i)

\* an operator with a nonzero entry between two nodes of different degree
C1_Witness ==
    /\ Constructed /\ NoZeroDegree
    /\ \E i, k \in Rows :
         /\ i # k
         /\ degree_row(i) # degree_row(k)
         /\ At(model.L, i, k) # Zero

\* sum over the hyperedges j shared by i and k of
\* 1 / (degree_col[j] * sqrt(degree_row[i]) * sqrt(degree_row[k]))
ClosedForm(i, k) ==
    LET common == {j \in Cols : <<i, j>> \in R /\ <<k, j>> \in R}
    IN Mul(SumOver(common, [j \in common |-> Norm(1, degree_col(j), 1)]),
           Norm(1, 1, degree_row(i) * degree_row(k)))

\* C3: with hyperedge weight 1 (and no zero degree, where the quotient is
\* defined) every entry of L equals the stated product:
\* L[i,k] = sum_j R[i,j] R[k,j] / (degree_col[j] sqrt(degree_row[i]) sqrt(degree_row[k])).
C3_HypergraphClosedForm ==
    (Constructed /\ NoZeroDegree) =>
        /\ model.L.shape = <<Cardinality(Rows), Cardinality(Rows)>>
        /\ \A i, k \in Rows : At(model.L, i, k) = ClosedForm(i, k)

\* two nodes share two hyperedges of different degrees
C3_Witness ==
    /\ Constructed /\ NoZeroDegree
    /\ \E i, k \in Rows : \E j1, j2 \in Cols :
         /\ i # k
         /\ {<<i, j1>>, <<k, j1>>, <<i, j2>>, <<k, j2>>} \subseteq R
         /\ degree_col(j1) # degree_col(j2)
         /\ degree_row(i) # degree_row(k)

DegreesDone == notebook = "hgnn" /\ pc \in {"model", "constructed"}

\* C6: H.sum(1) has one entry per row and H.sum(0) one per column of R;
\* each entry is the non-negative integer count of the pairs of R in that
\* row (column), and both vectors sum to the number of pairs of R.  The
\* degrees HGNN.__init__ computes are the same vectors.
C6_DegreeVectors ==
    DegreesDone =>
        /\ DOMAIN node_degrees = Rows
        /\ DOMAIN hyperedge_degrees = Cols
        /\ \A i \in Rows :
             /\ node_degrees[i] = [n |-> degree_row(i), d |-> 1, r |-> 1]
             /\ node_degrees[i].n >= 0
        /\ \A j \in Cols :
             /\ hyperedge_degrees[j] = [n |-> degree_col(j), d |-> 1, r |-> 1]
             /\ hyperedge_degrees[j].n >= 0
        /\ SumOver(Rows, node_degrees) = FromInt(Cardinality(R))
        /\ SumOver(Cols, hyperedge_degrees) = FromInt(Cardinality(R))
        /\ Constructed => /\ model.d_V = node_degrees
                           /\ model.d_E = hyperedge_degrees

\* a non-square relation with an isolated node and a hyperedge of degree >= 2
C6_Witness ==
    /\ DegreesDone
    /\ Cardinality(Rows) # Cardinality(Cols)
    /\ \E i \in Rows : node_degrees[i] = Zero
    /\ \E j \in Cols : hyperedge_degrees[j].n >= 2

\* the incidence matrix printed in the tutorial
TutorialH == <<
    <<1, 0, 0, 0, 0>>,
    <<1, 0, 0, 0, 0>>,
    <<1, 1, 0, 1, 1>>,
    <<0, 0, 1, 0, 0>>,
    <<0, 1, 0, 0, 0>>,
    <<1, 0, 1, 1, 1>>,
    <<0, 0, 1, 0, 0>>,
    <<0, 1, 0, 1, 0>>,
    <<0, 1, 0, 1, 0>>,
    <<0, 0, 1, 0, 1>>,
    <<0, 0, 0, 0, 1>> >>
TutorialNodeDegrees == <<1, 1, 4, 1, 1, 4, 1, 2, 2, 2, 1>>
TutorialHyperedgeDegrees == <<4, 4, 4, 4, 4>>

IsTutorial == nodes = TutorialNodes /\ hyperedges = TutorialHyperedges

\* C7: the 20 literal pairs build the 11 x 5 matrix H shown in the tutorial,
\* with node degrees [1,1,4,1,1,4,1,2,2,2,1] and hyperedge degrees [4,4,4,4,4].
C7_TutorialScenario ==
    (notebook = "hgnn" /\ IsTutorial) =>
        /\ pc # "from_coo" =>
             /\ H.shape = <<11, 5>>
             /\ \A i \in 0..10 : \A j \in 0..4 :
                  At(H, i, j) = FromInt(TutorialH[i + 1][j + 1])
        /\ DegreesDone =>
             /\ node_degrees =
                  [i \in 0..10 |-> FromInt(TutorialNodeDegrees[i + 1])]
             /\ hyperedge_degrees =
                  [j \in 0..4 |-> FromInt(TutorialHyperedgeDegrees[j + 1])]

C7_Witness == IsTutorial /\ DegreesDone /\ Len(nodes) = 20

(***************************************************************************)
(* Properties of the graph convolution operator.                           *)
(***************************************************************************)
Edges == {<<dst[t], src[t]>> : t \in DOMAIN src}
V == 0..(num_nodes - 1)
row_count(i) == Cardinality({p \in Edges : p[1] = i})
col_count(j) == Cardinality({p \in Edges : p[2] = j})

ForwardDone == notebook = "gcn" /\ pc = "loss"

SymmetricA == \A p \in Edges : <<p[2], p[1]>> \in Edges

\* C2 as stated: the normalised operator of GCNLayer.forward is symmetric
\* for every adjacency A, directed ones included.
C2_GraphSymmetricAnyA ==
    ForwardDone => \A i, j \in V : At(conv.L, i, j) = At(conv.L, j, i)

\* C2: for every symmetric adjacency A the operator
\* D_hat^(-1/2) (A+I) D_hat^(-1/2) is symmetric: L[i,j] = L[j,i].
C2_GraphSymmetric ==
    (ForwardDone /\ SymmetricA) =>
        \A i, j \in V : At(conv.L, i, j) = At(conv.L, j, i)

\* an undirected edge between two nodes of different degree
C2_Witness ==
    /\ ForwardDone /\ SymmetricA
    /\ \E i, j \in V :
         /\ i # j
         /\ <<i, j>> \in Edges
         /\ col_count(i) # col_count(j)
         /\ At(conv.L, i, j) # Zero

\* C4 as stated: the degree used for the normalisation is the row-sum of
\* A+I, degree[i] = 1 + sum_j A[i,j], for every A.
C4_DegreeIsRowSum ==
    ForwardDone =>
        \A i \in V : At(conv.D_hat, i, i) = FromInt(1 + row_count(i))

\* C4: the degree used for the normalisation is the column-sum of A+I,
\* the self-loops being added first: degree[i] = 1 + sum_j A[j,i]; it is
\* the row-sum whenever A is symmetric.
C4_DegreeIsColumnSum ==
    ForwardDone =>
        /\ Pos(conv.D_hat) = {<<i, i>> : i \in V}
        /\ \A i \in V : At(conv.D_hat, i, i) = FromInt(1 + col_count(i))
        /\ SymmetricA =>
             \A i \in V : At(conv.D_hat, i, i) = FromInt(1 + row_count(i))

\* a directed graph with a node whose in-degree and out-degree differ
C4_Witness ==
    /\ ForwardDone
    /\ \E i \in V : row_count(i) # col_count(i) /\ col_count(i) >= 1

\* C5: the positions where the operator of GCNLayer.forward is nonzero are
\* exactly the positions of A and the diagonal.
C5_GraphSparsity ==
    ForwardDone =>
        /\ Pos(conv.L) = Edges \cup {<<i, i>> : i \in V}
        /\ \A i, j \in V :
             (At(conv.L, i, j) # Zero) <=> (<<i, j>> \in Edges \/ i = j)
        /\ \A p \in Pos(conv.L) : IsFinite(conv.L.val[p])

\* a directed graph with an edge, a missing reverse edge and a non-edge
C5_Witness ==
    /\ ForwardDone
    /\ \E i, j \in V : i # j /\ <<i, j>> \in Edges /\ <<j, i>> \notin Edges
    /\ \E i, j \in V : i # j /\ <<i, j>> \notin Edges /\ <<j, i>> \notin Edges

(***************************************************************************)
(* Properties of the sparse attention.                                     *)
(***************************************************************************)
AttentionDone == notebook = "gt" /\ pc = "attended"
Heads == 0..(num_heads - 1)
Dims == 0..(head_dim - 1)
\* the entries of row i of A: one per edge j -> i
RowOf(i) == {p \in Edges : p[1] = i}

\* C8: when row i of A has exactly one entry (i, j), the masked softmax
\* gives it weight exactly 1 in every head and the attention output of i is
\* the value vector of j; with only self-loops every diagonal weight is 1
\* and the output of every node is its own value vector.
C8_SingleEntryWeightOne ==
    AttentionDone =>
        /\ \A p \in Edges : RowOf(p[1]) = {p} =>
             \A b \in Heads :
                /\ REq(mha.attn.val[p][b], RConst(One))
                /\ \A d \in Dims :
                     REq(mha.out[p[1]][d][b], RConst(mha.v[p[2]][d][b]))
        /\ Edges = {<<i, i>> : i \in V} =>
             \A i \in V : \A b \in Heads :
                /\ mha.attn.val[<<i, i>>][b].num = mha.attn.val[<<i, i>>][b].den
                /\ \A d \in Dims :
                     REq(mha.out[i][d][b], RConst(mha.v[i][d][b]))

\* the 3-node graph whose only edges are the three self-loops, with value
\* vectors that differ between nodes
C8_Witness ==
    /\ AttentionDone
    /\ num_nodes = 3
    /\ Edges = {<<i, i>> : i \in V}
    /\ mha.v[0] # mha.v[1]
    /\ \A i \in V : \A b \in Heads : REq(mha.attn.val[<<i, i>>][b], RConst(One))

\* C9: in every head the positions that carry an attention weight are
\* exactly the entries A[dst, src] of the edges src -> dst; every such
\* weight is nonzero and no other pair of nodes has one.
C9_AttentionPattern ==
    AttentionDone =>
        /\ mha.attn.shape = <<num_nodes, num_nodes>>
        /\ Pos(mha.attn) = {<<dst[t], src[t]>> : t \in DOMAIN src}
        /\ \A p \in Pos(mha.attn) : \A b \in Heads :
             ~REq(mha.attn.val[p][b], RConst(Zero))
        /\ \A i, j \in V :
             (\A t \in DOMAIN src : ~(src[t] = j /\ dst[t] = i)) =>
                <<i, j>> \notin Pos(mha.attn)

\* a directed graph: an edge without its reverse, and a node without self-loop
C9_Witness ==
    /\ AttentionDone
    /\ \E t \in DOMAIN src :
         /\ src[t] # dst[t]
         /\ <<src[t], dst[t]>> \notin Edges
         /\ <<dst[t], src[t]>> \in Pos(mha.attn)
         /\ <<dst[t], dst[t]>> \notin Pos(mha.attn)

\* C10: for every head and every row with at least one edge, the attention
\* weights of the row are strictly positive and sum to 1.
C10_RowsSumToOne ==
    AttentionDone =>
        \A i \in V : RowOf(i) # {} =>
            \A b \in Heads :
                /\ \A p \in RowOf(i) : RPositive(mha.attn.val[p][b])
                /\ REq(RSumOver(RowOf(i),
                                [p \in RowOf(i) |-> mha.attn.val[p][b]]),
                       RConst(One))

\* a row with two differently weighted entries, one of them alone in its column
C10_Witness ==
    /\ AttentionDone
    /\ \E p, q \in Edges : \E b \in Heads :
         /\ p # q
         /\ p[1] = q[1]
         /\ ~REq(mha.attn.val[p][b], mha.attn.val[q][b])
         /\ \A r \in Edges : r[2] = p[2] => r = p


(***************************************************************************)
(* Both operator constructions side by side.                               *)
(***************************************************************************)
InitOperators == InitHGNN \/ InitGCN

NextOperators == NextHGNN \/ NextGCN

SpecOperators == InitOperators /\ [][NextOperators]_vars

\* every stored value of a sparse matrix is a finite number
AllFinite(M) == \A p \in Pos(M) : IsFinite(M.val[p])

\* C11: when every row and every column of the relation has degree >= 1,
\* every scaling factor (d_V ** -0.5, d_E ** -1, D_hat ** -0.5) and every
\* entry of the operator is a finite number, in the hypergraph construction
\* and in the plain-graph construction, where the degrees of A + I are
\* never below 1.
C11_FiniteUnderPrecondition ==
    /\ (Constructed /\ NoZeroDegree) =>
          /\ AllFinite(model.D_v_invsqrt)
          /\ AllFinite(model.D_e_inv)
          /\ AllFinite(model.L)
    /\ ForwardDone =>
          /\ AllFinite(conv.D_hat_invsqrt)
          /\ AllFinite(conv.L)

\* a constructed hypergraph operator with an irrational and a fractional
\* scaling factor
C11_Witness ==
    /\ Constructed
    /\ NoZeroDegree
    /\ \E i \in Rows : degree_row(i) = 2
    /\ \E j \in Cols : degree_col(j) = 3
    /\ \E p \in Pos(model.L) : model.L.val[p].r # 1


\* the rows and the columns of the relation that hold no pair
ZeroRows == {i \in Rows : degree_row(i) = 0}
ZeroCols == {j \in Cols : degree_col(j) = 0}

\* C12 as stated: with an isolated node or an empty hyperedge the
\* constructed operator L holds a non-finite value.
C12_NonFiniteInL ==
    (Constructed /\ ~NoZeroDegree) =>
        \E p \in Pos(model.L) : ~IsFinite(model.L.val[p])

\* C12: with an isolated node (zero-degree row) or an empty hyperedge
\* (zero-degree column) the constructor is not refused; the scaling factor
\* of that row or column is non-finite, but the sparse products multiply
\* stored entries only, so every entry of L is finite and an isolated node
\* has no entry in its row or column of L: L @ W(X) adds no term for it.
C12_ZeroDegreeBuilds ==
    (Constructed /\ ~NoZeroDegree) =>
          /\ \A i \in ZeroRows : ~IsFinite(model.D_v_invsqrt.val[<<i, i>>])
          /\ \A j \in ZeroCols : ~IsFinite(model.D_e_inv.val[<<j, j>>])
          /\ AllFinite(model.L)
          /\ \A p \in Pos(model.L) : p[1] \notin ZeroRows /\ p[2] \notin ZeroRows

\* an operator constructed from a relation with an isolated node and an
\* empty hyperedge
C12_Witness ==
    /\ Constructed
    /\ ZeroRows # {}
    /\ ZeroCols # {}
    /\ Pos(model.L) # {}


\* nodes i and k are members of a common hyperedge
ShareHyperedge(i, k) == \E j \in Cols : <<i, j>> \in R /\ <<k, j>> \in R

\* C16: L[i,k] of the hypergraph operator is nonzero exactly when nodes i
\* and k share a hyperedge; L[i,i] is nonzero for every node of degree >= 1;
\* the stored entries are exactly those positions and are strictly positive.
C16_HypergraphSparsity ==
    Constructed =>
        /\ \A i, k \in Rows : (At(model.L, i, k) # Zero) <=> ShareHyperedge(i, k)
        /\ \A i \in Rows : degree_row(i) >= 1 => At(model.L, i, i) # Zero
        /\ \A p \in Pos(model.L) :
             /\ ShareHyperedge(p[1], p[2])
             /\ model.L.val[p].n > 0 /\ model.L.val[p].d > 0

\* two nodes share a hyperedge, two other nodes share none, and the sharing
\* is not transitive
C16_Witness ==
    /\ Constructed
    /\ \E i, k, l \in Rows :
         /\ i # k /\ k # l /\ i # l
         /\ ShareHyperedge(i, k) /\ ShareHyperedge(k, l)
         /\ ~ShareHyperedge(i, l)
         /\ At(model.L, i, k) # Zero
         /\ At(model.L, i, l) = Zero


(***************************************************************************)
(* Properties of load_data.                                                *)
(***************************************************************************)
\* load_data has returned an incidence matrix
Loaded == notebook = "hgnn" /\ num_nodes > 0 /\ pc \in {"model", "constructed"}

\* no edge of the graph joins a node to itself
NoSelfLoop == \A t \in DOMAIN src : src[t] # dst[t]

\* the highest-numbered node has an outgoing and an incoming edge
LastNodeConnected ==
    /\ (num_nodes - 1) \in Range(src)
    /\ (num_nodes - 1) \in Range(dst)

\* H is the adjacency matrix plus the identity and holds zeros and ones only
ZeroOneIncidence ==
    /\ H.shape = <<num_nodes, num_nodes>>
    /\ \A i, j \in V : At(H, i, j) \in {Zero, One}
    /\ \A i \in V : At(H, i, i) = One
    /\ \A d, s \in V : (At(H, d, s) = One) <=> (<<d, s>> \in Edges \/ d = s)

InitAugmented == InitGCN \/ InitLoadData

NextAugmented == NextGCN \/ NextLoadData

SpecAugmented == InitAugmented /\ [][NextAugmented]_vars

\* a degree vector has one entry per node and no entry below 1
DegreesAtLeastOne(d) ==
    /\ DOMAIN d = V
    /\ \A i \in V : d[i].d = 1 /\ d[i].r = 1 /\ d[i].n >= 1

\* C19 as stated: the self-loops are added before the degrees are computed,
\* so every degree used by GCNLayer.forward and every node degree and
\* hyperedge degree of the H built by load_data is at least 1 for every
\* input graph, and load_data builds H for every input graph.
C19_NoZeroDegreeEver ==
    /\ ForwardDone => DegreesAtLeastOne(sum(conv.A_hat, 0))
    /\ (notebook = "hgnn" /\ num_nodes > 0) => pc # "raised"
    /\ (Constructed /\ num_nodes > 0) =>
          /\ DegreesAtLeastOne(model.d_V)
          /\ DegreesAtLeastOne(model.d_E)

\* three nodes and the single edge 0 -> 2: H is 3 x 1, the identity reaches
\* row 0 only and node 1 is left with degree 0
C19_FailingInput ==
    /\ Constructed
    /\ num_nodes = 3 /\ src = <<0>> /\ dst = <<2>>
    /\ H.shape = <<3, 1>>
    /\ model.d_V[1] = Zero

\* C20 as stated: the incidence matrix returned by load_data is square,
\* N x N, for every graph with N nodes.
C20_SquareIncidence == Loaded => H.shape = <<num_nodes, num_nodes>>

\* three nodes and the single edge 0 -> 1: H is 2 x 1
C20_FailingInput ==
    /\ Loaded
    /\ num_nodes = 3 /\ src = <<0>> /\ dst = <<1>>
    /\ H.shape = <<2, 1>>


(***************************************************************************)
(* Properties of the training runs.                                        *)
(***************************************************************************)
\* C13 as stated: in the hypergraph and the graph convolution notebook the
\* propagation operator is computed once per graph.
C13_BuiltOncePerGraph == notebook \in {"hgnn", "gcn"} => builds <= 1

\* C13: the hypergraph notebook computes L once, in HGNN.__init__, and every
\* forward pass of every epoch uses it, unchanged by the optimizer steps.
\* The graph convolution notebook builds the adjacency matrix A once, but
\* GCNLayer.forward computes the normalised operator anew in every call,
\* twice per forward pass, each time with the same value.  The graph
\* transformer builds its adjacency matrix once per forward pass, from the
\* mini-batch of that pass.
C13_OperatorLifecycle ==
    /\ notebook = "hgnn" =>
          /\ coo <= 1 /\ builds <= 1
          /\ passes > 0 => (coo = 1 /\ builds = 1)
          /\ builds = 1 => model = HGNN_init(H)
    /\ notebook = "gcn" =>
          /\ coo <= 1
          /\ passes > 0 => (coo = 1 /\ A = from_coo_shape(dst, src, <<num_nodes, num_nodes>>))
          /\ pc \in {"loop", "done"} => builds = 2 * passes
          /\ pc = "relu" => builds = 2 * passes - 1
          /\ builds > 0 => conv = GCNLayer_forward(A)
    /\ notebook = "gt" =>
          /\ coo = passes
          /\ (passes > 0 /\ pc # "forward") =>
                /\ num_nodes = batch(batched_g).num_nodes
                /\ A = from_coo_shape(dst, src, <<num_nodes, num_nodes>>)

\* the second epoch of the graph convolution run: the operator has been
\* computed four times for two forward passes, after an optimizer step
C13_Witness ==
    /\ notebook = "gcn"
    /\ pc = "loss"
    /\ epoch = 1 /\ steps = 1 /\ passes = 2
    /\ builds = 4 /\ coo = 1

\* the positions of X at which the propagation operator is applied
Applications(Xc) == {t \in DOMAIN Xc : Xc[t] = "L"}

\* the linear projections of the layers
Projected == {"W1", "W2", "conv1.W", "conv2.W"}

\* model(X) of the hypergraph or the graph convolution notebook has returned
ForwardReturned ==
    \/ notebook = "hgnn" /\ pc \in {"loss", "set_postfix"}
    \/ notebook = "gcn" /\ pc = "loss"

\* C14: every application of the operator is to features that were just
\* linearly projected, L @ W(X), once per layer; a forward pass of the
\* two-layer models applies it exactly twice, with the nonlinearity between
\* the two applications and nothing after the second.
C14_OperatorOncePerLayer ==
    /\ \A t \in Applications(X) : t > 1 /\ X[t - 1] \in Projected
    /\ \A t \in DOMAIN X : X[t] \in Projected => (t < Len(X) /\ X[t + 1] = "L")
    /\ Cardinality(Applications(X)) <= 2
    /\ ForwardReturned =>
          /\ Cardinality(Applications(X)) = 2
          /\ X[Len(X)] = "L"
          /\ \E t \in DOMAIN X :
                /\ X[t] = "relu"
                /\ \E a \in Applications(X) : a < t
                /\ \E b \in Applications(X) : t < b
          /\ Cardinality({t \in DOMAIN X : X[t] = "relu"}) = 1

\* a training-mode forward pass of the hypergraph network has returned
C14_Witness ==
    /\ notebook = "hgnn"
    /\ pc = "loss"
    /\ epoch = 1
    /\ X = <<"dropout", "W1", "L", "relu", "dropout", "W2", "L">>

\* C15 as stated: every notebook prints one report per epoch, so the
\* number of printed reports equals the number of epochs run.
C15_ReportPerEpoch ==
    (notebook \in {"hgnn", "gcn", "gt"} /\ pc \in {"loop", "done"}) =>
        Len(stdout) = epoch

\* C15: the graph transformer prints one report (loss, validation and test
\* metric) per epoch, 20 in all.  The graph convolution run prints a report
\* (loss, validation and test accuracy) only for the epochs divisible by 5:
\* 20 reports for 100 epochs.  The hypergraph run prints nothing per epoch:
\* it sets the progress bar's postfix to the validation and test accuracy,
\* without the loss, and prints the test accuracy once after the 500 epochs.
C15_Reports ==
    /\ (notebook = "gt" /\ pc \in {"loop", "done"}) =>
          /\ Len(stdout) = epoch
          /\ \A t \in DOMAIN stdout :
                stdout[t] = [epoch |-> t - 1, fields |-> {"Loss", "Val", "Test"}]
          /\ pc = "done" => Len(stdout) = num_epochs
    /\ (notebook = "gcn" /\ pc \in {"loop", "done"}) =>
          /\ Len(stdout) = (epoch + report_every - 1) \div report_every
          /\ \A t \in DOMAIN stdout :
                stdout[t] = [epoch |-> report_every * (t - 1),
                             fields |-> {"loss", "val acc", "test acc"}]
          /\ pc = "done" =>
                /\ epoch = GCN_epochs
                /\ Len(stdout) = GCN_epochs \div report_every
    /\ (notebook = "hgnn" /\ pc \in {"loop", "done"}) =>
          /\ pc = "loop" => stdout = <<>>
          /\ epoch > 0 =>
                postfix = <<[epoch |-> epoch - 1,
                             fields |-> {"Val acc", "Test acc"}]>>
          /\ pc = "done" =>
                /\ epoch = HGNN_epochs
                /\ stdout = <<[epoch |-> HGNN_epochs - 1, fields |-> {"Test acc"}]>>

\* the graph convolution run has ended with fewer reports than epochs
C15_Witness ==
    /\ notebook = "gcn"
    /\ pc = "done"
    /\ epoch = GCN_epochs
    /\ Len(stdout) < epoch
    /\ stdout[Len(stdout)].epoch = GCN_epochs - report_every

\* C18: the Laplacian positional encoding of every graph of the three
\* down-sampled splits is stored before the model is created and train is
\* called, with the width pos_enc_size that pos_linear is built with, so
\* every graph of every mini-batch the model is run on carries it and no
\* forward pass raises.
C18_EncodingBeforeTraining ==
    (notebook = "gt" /\ pc \notin {"downsample", "pe"}) =>
        /\ \A i \in train_idx \cup val_idx \cup test_idx : PE[i] = pos_enc_size
        /\ pos_linear = pos_enc_size
        /\ batched_g \subseteq train_idx \cup val_idx \cup test_idx
        /\ \A i \in batched_g : PE[i] = pos_linear
        /\ pc # "raised"

\* the model has been run on a mini-batch of the test split, while a graph
\* left out by the down-sampling has no encoding
C18_Witness ==
    /\ notebook = "gt"
    /\ pc = "batch"
    /\ loader = "test"
    /\ batched_g # {} /\ batched_g \subseteq test_idx
    /\ passes > 0 /\ coo = passes
    /\ \E i \in Dataset : PE[i] = 0

\* the value vectors vm with those of every node outside keep replaced by
\* different ones
Elsewhere(vm, keep) ==
    [j \in DOMAIN vm |->
        IF j \in keep THEN vm[j]
        ELSE [d \in DOMAIN vm[j] |-> [b \in DOMAIN vm[j][d] |->
                Add(vm[j][d][b], One)]]]
\* W with only the entries of row i kept
OnlyRow(W, i) ==
    [shape |-> W.shape,
     val |-> [p \in {q \in Pos(W) : q[1] = i} |-> W.val[p]]]
\* the nodes j with an entry A[i, j]
Attended(i) == {p[2] : p \in RowOf(i)}

\* C24: a node whose row of A has no entry gets no attention weight and
\* its attention output is the zero vector in every head, a finite value;
\* the attention output of any node i is the same when the value vectors
\* of the nodes j without an entry A[i, j] are replaced by others and the
\* weights of the other rows are removed.
C24_IsolatedRowsAndLocality ==
    AttentionDone =>
        \A i \in V :
            /\ RowOf(i) = {} =>
                 /\ \A q \in Pos(mha.attn) : q[1] # i
                 /\ \A d \in Dims : \A b \in Heads :
                      /\ mha.out[i][d][b] = RConst(Zero)
                      /\ mha.out[i][d][b].den # EZero
            /\ \A q \in Pos(mha.attn) : q[1] = i => q[2] \in Attended(i)
            /\ bspmm(OnlyRow(mha.attn, i),
                     Elsewhere(mha.v, Attended(i)))[i] = mha.out[i]

\* a 3-node graph with a node without incoming edge, and a node that
\* attends to one node and not to another whose value vector is not zero
C24_Witness ==
    /\ AttentionDone
    /\ num_nodes = 3
    /\ \E i \in V : RowOf(i) = {}
    /\ \E i, j, k \in V :
         /\ i # k /\ <<i, j>> \in Edges /\ <<i, k>> \notin Edges
         /\ \E d \in Dims : \E b \in Heads :
              /\ mha.v[k][d][b] # Zero
              /\ ~REq(mha.out[i][d][b], RConst(Zero))

\* the positions of train() of the graph transformer once the optimizer
\* and the scheduler exist
GT_Training ==
    /\ notebook = "gt"
    /\ pc \in {"loop", "batch", "forward", "loss", "zero_grad", "backward",
               "step", "evaluate", "print", "done"}
\* number of mini-batches of one epoch of the training dataloader
BatchesPerEpoch == (TrainSample + BatchSize - 1) \div BatchSize

\* C21: every optimizer.step() of the graph-transformer train() runs with
\* the initial learning rate 0.001; the scheduler is stepped once per
\* epoch, after that epoch's batches, and the halved rate is in effect only
\* once the last training batch of the last epoch has been processed.
C21_InitialRateAtEveryStep ==
    GT_Training =>
        /\ step_lrs \subseteq {lr_init}
        /\ pc \in {"forward", "loss", "zero_grad", "backward", "step"}
             /\ loader = "train" => lr = lr_init
        /\ last_epoch = IF loader = "train" \/ pc \in {"loop", "done"}
                        THEN epoch ELSE epoch + 1
        /\ lr = IF last_epoch < num_epochs THEN lr_init
                ELSE Mul(lr_init, gamma)
        /\ lr # lr_init => steps = num_epochs * BatchesPerEpoch

\* the run has ended: 20 epochs of steps were made at the initial rate and
\* the rate is halved now
C21_Witness ==
    /\ notebook = "gt"
    /\ pc = "done"
    /\ epoch = num_epochs
    /\ steps = num_epochs * BatchesPerEpoch
    /\ step_lrs = {lr_init}
    /\ lr = Mul(lr_init, gamma)
    /\ lr # lr_init

\* the epochs below e for which train() of the GCN prints a report
Reported(e) == {k \in 0..(e - 1) : k % report_every = 0}

\* C22: in epoch e of the GCN train() the forward pass, the loss,
\* zero_grad, backward and the optimizer step come in this order and the
\* evaluation follows the step; the accuracies of epoch e are those of the
\* logits of the forward pass made before the step, from parameters that
\* had e updates and not e + 1; a report is printed exactly for the epochs
\* with e % 5 = 0, 20 of them after the 100 epochs.
C22_AccuraciesLagOneStep ==
    notebook = "gcn" /\ pc \in {"conv1", "relu", "conv2", "loss", "zero_grad",
                               "backward", "step", "evaluate", "report",
                               "done"} =>
        /\ pc \in {"conv1", "relu", "conv2"} =>
             passes = epoch + 1 /\ steps = epoch
        /\ pc \in {"loss", "zero_grad", "backward", "step"} =>
             /\ passes = epoch + 1 /\ steps = epoch /\ logits = epoch
             /\ Len(X) = 5
        /\ pc = "backward" => grad = "zero"
        /\ pc = "step" => grad = "computed"
        /\ pc = "evaluate" =>
             steps = epoch + 1 /\ logits = epoch /\ grad = "computed"
        /\ pc = "report" =>
             /\ val_acc = epoch /\ logits = epoch
             /\ steps = epoch + 1 /\ val_acc # steps
             /\ passes = epoch + 1
        /\ pc # "done" => epoch < GCN_epochs
        /\ Len(stdout) = Cardinality(Reported(epoch))
        /\ \A t \in DOMAIN stdout : stdout[t].epoch = report_every * (t - 1)
        /\ pc = "done" => Len(stdout) = 20 /\ val_acc = GCN_epochs - 1

\* epoch 5 is about to print its report: its accuracies come from the
\* parameters after 5 updates while 6 have been made, and epoch 0 has been
\* reported
C22_Witness ==
    /\ notebook = "gcn"
    /\ pc = "report"
    /\ epoch = 5
    /\ val_acc = 5
    /\ steps = 6
    /\ Len(stdout) = 1

\* dropout was applied in the forward pass made so far
DropoutActive == \E t \in DOMAIN X : X[t] = "dropout"
\* the forward pass of the hypergraph network is running or has returned
HGNN_Forward == pc \in {"layer1", "relu", "layer2"}

\* C23: in the loops of the hypergraph network and of the graph
\* transformer every forward pass followed by an optimizer step runs in
\* training mode and every forward pass used for metrics runs in
\* evaluation mode; between the last optimizer step of an epoch and the
\* first training forward pass of the next no optimizer step is made and
\* no gradient is computed, and training mode is back when that forward
\* pass starts.
C23_ModesOfForwardPasses ==
    /\ notebook = "hgnn" /\ pc \in {"layer1", "relu", "layer2", "loss",
                                    "zero_grad", "backward", "step",
                                    "evaluate", "set_postfix", "print",
                                    "done"} =>
         /\ HGNN_Forward /\ caller = "train" =>
              mode = "train" /\ steps = epoch
         /\ pc \in {"relu", "layer2", "loss", "zero_grad", "backward",
                    "step"} /\ caller = "train" =>
              mode = "train" /\ steps = epoch /\ DropoutActive
         /\ HGNN_Forward /\ caller = "evaluate" =>
              mode = "eval" /\ steps = epoch + 1 /\ grad = "computed"
         /\ pc \in {"relu", "layer2"} /\ caller = "evaluate" =>
              ~DropoutActive
         /\ pc = "set_postfix" =>
              /\ mode = "eval" /\ ~DropoutActive
              /\ steps = epoch + 1 /\ grad = "computed"
         /\ pc \in {"print", "done"} => steps = HGNN_epochs
    /\ notebook = "hgnn" /\ pc = "loop" => steps = epoch
    /\ GT_Training =>
         /\ pc \in {"batch", "forward", "loss", "zero_grad", "backward",
                    "step"} /\ loader = "train" =>
              /\ mode = "train"
              /\ steps >= epoch * BatchesPerEpoch
              /\ steps <= (epoch + 1) * BatchesPerEpoch
         /\ pc \in {"loss", "zero_grad", "backward", "step"} =>
              loader = "train" /\ steps < (epoch + 1) * BatchesPerEpoch
         /\ pc \in {"batch", "forward"} /\ loader \in {"valid", "test"} =>
              /\ mode = "eval"
              /\ steps = (epoch + 1) * BatchesPerEpoch
              /\ grad = "computed"
         /\ pc \in {"evaluate", "print"} =>
              steps = (epoch + 1) * BatchesPerEpoch /\ grad = "computed"
         /\ pc \in {"loop", "done"} => steps = epoch * BatchesPerEpoch

\* the second epoch of the hypergraph loop starts its training forward
\* pass: the evaluation of the first epoch has run in evaluation mode,
\* one optimizer step has been made and training mode is back
C23_Witness ==
    /\ notebook = "hgnn"
    /\ pc = "layer1"
    /\ caller = "train"
    /\ epoch = 1
    /\ mode = "train"
    /\ steps = 1
    /\ passes = 3
    /\ postfix # <<>>

====
